---- MODULE Spec2Model ----
(***************************************************************************)
(* Notification zone filter (src/src/main.py).                             *)
(*                                                                         *)
(* A NotificationFilterMixin wraps a notifier.  sendNotification decides,  *)
(* from the zones stored for the event's camera (the mixin's own custom    *)
(* zones or those of a shared preset device), whether the notification is  *)
(* passed to the wrapped notifier or skipped.                              *)
(*                                                                         *)
(* Coordinates are integers: the normalized zone vertices used here are 0  *)
(* and 1, frame sizes and bounding boxes are whole pixels, so the products *)
(* x * inputDimensions[0] of the source are exact.                         *)
(***************************************************************************)
EXTENDS Integers, Sequences, FiniteSets, TLC

\* Python's None, for the string-valued items of a storage.
None == "None"

(***************************************************************************)
(* Bounds of the model.                                                    *)
(***************************************************************************)
\* Longest detections list of an event.
MaxDetections == 2
MaxTasks == 2

Cameras == {"cam1", "cam2"}
PresetIds == {"p1"}
ZoneNames == {"z1", "z2"}

(***************************************************************************)
(* Geometry: what shapely computes for the polygons of the source.         *)
(* A polygon is the sequence of its vertices, the ring closed implicitly.  *)
(***************************************************************************)
\* shapely.geometry.box(minx, miny, maxx, maxy): the rectangle, counter-
\* clockwise from the lower right corner.
box(minx, miny, maxx, maxy) ==
    << <<maxx, miny>>, <<maxx, maxy>>, <<minx, maxy>>, <<minx, miny>> >>

\* Twice the signed area of the triangle o, a, b.
Cross(o, a, b) ==
    (a[1] - o[1]) * (b[2] - o[2]) - (a[2] - o[2]) * (b[1] - o[1])

Min2(a, b) == IF a <= b THEN a ELSE b
Max2(a, b) == IF a >= b THEN a ELSE b

\* p lies on the closed segment a-b.
OnSegment(p, a, b) ==
    /\ Cross(a, b, p) = 0
    /\ Min2(a[1], b[1]) <= p[1] /\ p[1] <= Max2(a[1], b[1])
    /\ Min2(a[2], b[2]) <= p[2] /\ p[2] <= Max2(a[2], b[2])

\* The closed segments a-b and c-d cross at a point interior to both.
ProperCross(a, b, c, d) ==
    LET d1 == Cross(c, d, a)
        d2 == Cross(c, d, b)
        d3 == Cross(a, b, c)
        d4 == Cross(a, b, d)
    IN  /\ (d1 > 0 /\ d2 < 0) \/ (d1 < 0 /\ d2 > 0)
        /\ (d3 > 0 /\ d4 < 0) \/ (d3 < 0 /\ d4 > 0)

\* The closed segments a-b and c-d share a point.
SegmentsIntersect(a, b, c, d) ==
    \/ ProperCross(a, b, c, d)
    \/ OnSegment(a, c, d) \/ OnSegment(b, c, d)
    \/ OnSegment(c, a, b) \/ OnSegment(d, a, b)

\* The edges of a polygon, as pairs of end points.
Edges(poly) ==
    { << poly[i], poly[(i % Len(poly)) + 1] >> : i \in 1..Len(poly) }

\* The edge e crosses the horizontal ray from p towards +x (ray casting).
RayCrosses(p, e) ==
    LET a == e[1]
        b == e[2]
    IN  /\ (a[2] > p[2]) # (b[2] > p[2])
        /\ IF b[2] > a[2]
           THEN (p[1] - a[1]) * (b[2] - a[2]) < (p[2] - a[2]) * (b[1] - a[1])
           ELSE (p[1] - a[1]) * (b[2] - a[2]) > (p[2] - a[2]) * (b[1] - a[1])

\* p is in the closed region of the polygon (interior or boundary).
Covers(poly, p) ==
    \/ \E e \in Edges(poly) : OnSegment(p, e[1], e[2])
    \/ Cardinality({ e \in Edges(poly) : RayCrosses(p, e) }) % 2 = 1

Vertices(poly) == { poly[i] : i \in 1..Len(poly) }

\* shapely a.intersects(b): the two regions share at least one point.
intersects(a, b) ==
    \/ \E e \in Edges(a), f \in Edges(b) : SegmentsIntersect(e[1], e[2], f[1], f[2])
    \/ \E p \in Vertices(a) : Covers(b, p)
    \/ \E p \in Vertices(b) : Covers(a, p)

\* shapely a.contains(b) for polygons of positive area: no point of b lies
\* outside a.
contains(a, b) ==
    /\ \A p \in Vertices(b) : Covers(a, p)
    /\ ~ \E e \in Edges(a), f \in Edges(b) : ProperCross(e[1], e[2], f[1], f[2])

(***************************************************************************)
(* Stored settings.  A NotificationFilterEditor (the mixin with its custom *)
(* zones, or a preset device) keeps, per camera, the list of zone names,   *)
(* and per zone its clip path and its type.  An item that was never set    *)
(* reads as None, which the getters turn into [], "Intersect" or False.    *)
(***************************************************************************)
\* Clip paths in normalized coordinates.
NoPath == << >>
ShortPath == << <<0, 0>>, <<1, 1>> >>
TrianglePath == << <<0, 0>>, <<1, 0>>, <<0, 1>> >>
FramePath == << <<0, 0>>, <<1, 0>>, <<1, 1>>, <<0, 1>> >>
Paths == {NoPath, ShortPath, TrianglePath, FramePath}

ZoneTypes == {None, "Intersect", "Contain"}

EmptyStorage ==
    [ use_custom      |-> FALSE,
      selected_preset |-> None,
      debug_zones     |-> FALSE,
      selected_camera |-> None,
      zones           |-> [c \in Cameras |-> << >>],
      zone            |-> [c \in Cameras |-> [z \in ZoneNames |-> NoPath]],
      type            |-> [c \in Cameras |-> [z \in ZoneNames |-> None]] ]

\* NotificationFilterEditor.zones_of
zones_of(st, camera_id) ==
    IF camera_id \in Cameras THEN st.zones[camera_id] ELSE << >>

\* NotificationFilterEditor.zone_details_of
zone_details_of(st, camera_id, zone) ==
    IF camera_id \in Cameras THEN st.zone[camera_id][zone] ELSE << >>

\* NotificationFilterEditor.zone_type_of
zone_type_of(st, camera_id, zone) ==
    IF camera_id \in Cameras /\ st.type[camera_id][zone] # None
    THEN st.type[camera_id][zone]
    ELSE "Intersect"

\* NotificationFilterMixin.debug_zones, use_custom, selected_preset
debug_zones(st) == st.debug_zones
use_custom(st) == st.use_custom
selected_preset(st) == st.selected_preset

(***************************************************************************)
(* The notification a caller hands to sendNotification.  options is the    *)
(* NotifierOptions dictionary: a key that is missing is a FALSE has-field  *)
(* (or the None id, or the empty snoozeId).                                *)
(***************************************************************************)
\* A detection without a "boundingBox" key.
NoBoundingBox == << >>

\* The bounding boxes (x, y, w, h) of the events, in pixels of a 4 x 4 frame:
\* the whole frame, a box touching the diagonal of the frame at one corner,
\* and a box in the far corner.
BoundingBoxes == { <<0, 0, 4, 4>>, <<2, 2, 1, 1>>, <<3, 3, 1, 1>> }

Detections == [ boundingBox : BoundingBoxes ]

\* Lists that hold a detection without a boundingBox.
UnboxedLists ==
    { << [boundingBox |-> NoBoundingBox] >>,
      << [boundingBox |-> NoBoundingBox], [boundingBox |-> <<0, 0, 4, 4>>] >> }

RECURSIVE SeqsUpTo(_, _)
\* The sequences over S of length at most n.
SeqsUpTo(S, n) ==
    IF n = 0 THEN { << >> }
    ELSE LET shorter == SeqsUpTo(S, n - 1)
         IN  shorter \cup { Append(q, x) : q \in shorter, x \in S }

DetectionLists == SeqsUpTo(Detections, MaxDetections) \cup UnboxedLists

InputDimensions == <<4, 4>>

\* snoozeId strings, as the list of their parts between "-".
SnoozeIds == { << >>, <<"snooze">>, <<"snooze", "cam1", "person">> }

Event(hasOptions, hasRecordedEvent, id, snoozeId, hasDetections, hasInputDimensions, detections) ==
    [ hasOptions         |-> hasOptions,
      hasRecordedEvent   |-> hasRecordedEvent,
      id                 |-> id,
      snoozeId           |-> snoozeId,
      hasDetections      |-> hasDetections,
      hasInputDimensions |-> hasInputDimensions,
      inputDimensions    |-> InputDimensions,
      detections         |-> detections ]

\* Payloads with a part missing.
MalformedEvents ==
    { Event(FALSE, FALSE, None, << >>, FALSE, FALSE, << >>),
      Event(TRUE, FALSE, None, << >>, FALSE, FALSE, << >>),
      Event(TRUE, TRUE, None, << >>, TRUE, TRUE, << >>),
      Event(TRUE, TRUE, None, <<"snooze">>, TRUE, TRUE, << >>),
      Event(TRUE, TRUE, "cam1", << >>, FALSE, FALSE, << >>),
      Event(TRUE, TRUE, "cam1", << >>, TRUE, FALSE, << >>),
      Event(TRUE, TRUE, "cam2", << >>, FALSE, FALSE, << >>) }

\* Complete payloads.
CompleteEvents ==
    { Event(TRUE, TRUE, "cam1", << >>, TRUE, TRUE, d) : d \in DetectionLists }
    \cup { Event(TRUE, TRUE, None, <<"snooze", "cam1", "person">>, TRUE, TRUE, d) :
             d \in { << >>, << [boundingBox |-> <<2, 2, 1, 1>>] >> } }
    \cup { Event(TRUE, TRUE, "cam2", << >>, TRUE, TRUE, d) :
             d \in { << >>, << [boundingBox |-> <<0, 0, 4, 4>>] >> } }

Events == MalformedEvents \cup CompleteEvents

(***************************************************************************)
(* State.                                                                  *)
(***************************************************************************)
VARIABLES
    storage,         \* the mixin's settings and custom zones (PrefixStorage)
    presetStorage,   \* the storage of each preset device
    systemDevices,   \* the preset device ids the host's systemManager knows
    preset_devices,  \* NotificationFilter.preset_devices: the live preset objects
    cache,           \* the TTLCache of the mixin's get_device_from_scrypted
    last,            \* the latest sendNotification call and what it did
    tasks,           \* the sendNotification coroutines in flight, each at an await
    cacheAlone       \* the TTLCache without the lookups of the coroutines in flight

vars == << storage, presetStorage, systemDevices, preset_devices, cache, last,
           tasks, cacheAlone >>

\* Values of a cache entry: none held, a held device, a held None.
NoEntry == "no entry"
CachedDevice == "device"
CachedNone == "none"

\* NotificationFilterEditor.get_device_from_scrypted under @cached: the held
\* value while the entry lives, else systemManager.getDeviceById.
get_device_from_scrypted(c, devices, device_id) ==
    IF c[device_id] # NoEntry THEN c[device_id]
    ELSE IF device_id \in devices THEN CachedDevice ELSE CachedNone

\* The cache after a lookup of device_id: a miss stores what was found.
CacheAfterLookup(c, devices, device_id) ==
    [c EXCEPT ![device_id] = get_device_from_scrypted(c, devices, device_id)]

\* NotificationFilter.get_preset_by_scrypted_id: the live preset object with
\* that id, or None.
get_preset_by_scrypted_id(presets, device_id) ==
    IF device_id \in presets THEN device_id ELSE None

\* The mixin itself, as the owner of the custom zones.
Self == "self"

(***************************************************************************)
(* sendNotification: the try block.  Its result is the exception it ends   *)
(* with (ShouldSendNotification with a reason, or any other Exception) or  *)
(* the normal end, which runs the else clause.                             *)
(***************************************************************************)
ShouldSendNotification(reason, zone_bbox, obj_bbox) ==
    [ kind |-> "ShouldSendNotification", reason |-> reason,
      zone_bbox |-> zone_bbox, obj_bbox |-> obj_bbox ]

Exception(name) ==
    [ kind |-> "Exception", reason |-> name, zone_bbox |-> << >>, obj_bbox |-> << >> ]

NothingRaised ==
    [ kind |-> "else", reason |-> "nothing matched", zone_bbox |-> << >>, obj_bbox |-> << >> ]

\* [[x * inputDimensions[0], y * inputDimensions[1]] for [x, y] in zone_details]
ScaleZone(zone_details, inputDimensions) ==
    [ k \in 1..Len(zone_details) |->
        << zone_details[k][1] * inputDimensions[1],
           zone_details[k][2] * inputDimensions[2] >> ]

\* shapely.geometry.box(b[0], b[1], b[0] + b[2], b[1] + b[3])
DetectionBox(boundingBox) ==
    box(boundingBox[1], boundingBox[2],
        boundingBox[1] + boundingBox[3], boundingBox[2] + boundingBox[4])

\* ZoneMatches with the containment test for every zone type.
ZoneMatchesContainOnly(zone_type, detection_box, zone_box) ==
    contains(detection_box, zone_box)

\* The test of one zone against one detection box.
ZoneMatches(zone_type, detection_box, zone_box) ==
    IF zone_type = "Intersect"
    THEN intersects(detection_box, zone_box)
    ELSE contains(detection_box, zone_box)

RECURSIVE ScanZonesFlagKept(_, _, _, _, _, _, _, _)
\* ScanZones without the assignment no_zones_at_all = False.
ScanZonesFlagKept(st, device_id, zones, detections, inputDimensions, i, j, no_zones_at_all) ==
    IF i > Len(detections)
    THEN IF no_zones_at_all
         THEN ShouldSendNotification("no detections or no zones", << >>, << >>)
         ELSE NothingRaised
    ELSE IF detections[i].boundingBox = NoBoundingBox \/ j > Len(zones)
    THEN ScanZonesFlagKept(st, device_id, zones, detections, inputDimensions, i + 1, 1, no_zones_at_all)
    ELSE LET zone_details == zone_details_of(st, device_id, zones[j])
             detection_box == DetectionBox(detections[i].boundingBox)
             zone_box == ScaleZone(zone_details, inputDimensions)
         IN  IF zone_details = << >>
             THEN ScanZonesFlagKept(st, device_id, zones, detections, inputDimensions, i, j + 1, no_zones_at_all)
             ELSE IF Len(zone_details) < 3
             THEN Exception("ValueError")
             ELSE IF ZoneMatches(zone_type_of(st, device_id, zones[j]), detection_box, zone_box)
             THEN ShouldSendNotification(
                      IF zone_type_of(st, device_id, zones[j]) = "Intersect"
                      THEN "intersects zone" ELSE "contains zone",
                      zone_box, detection_box)
             ELSE ScanZonesFlagKept(st, device_id, zones, detections, inputDimensions, i, j + 1, no_zones_at_all)

RECURSIVE ScanZones(_, _, _, _, _, _, _, _)
\* The nested loops over detections (index i) and zones (index j), from the
\* pair (i, j) on; no_zones_at_all is the flag of the source.
ScanZones(st, device_id, zones, detections, inputDimensions, i, j, no_zones_at_all) ==
    IF i > Len(detections)
    THEN IF no_zones_at_all
         THEN ShouldSendNotification("no detections or no zones", << >>, << >>)
         ELSE NothingRaised
    ELSE IF detections[i].boundingBox = NoBoundingBox \/ j > Len(zones)
    THEN ScanZones(st, device_id, zones, detections, inputDimensions, i + 1, 1, no_zones_at_all)
    ELSE LET zone_details == zone_details_of(st, device_id, zones[j])
             detection_box == DetectionBox(detections[i].boundingBox)
             zone_box == ScaleZone(zone_details, inputDimensions)
         IN  IF zone_details = << >>
             THEN ScanZones(st, device_id, zones, detections, inputDimensions, i, j + 1, no_zones_at_all)
             ELSE IF Len(zone_details) < 3
             THEN Exception("ValueError")
             ELSE IF ZoneMatches(zone_type_of(st, device_id, zones[j]), detection_box, zone_box)
             THEN ShouldSendNotification(
                      IF zone_type_of(st, device_id, zones[j]) = "Intersect"
                      THEN "intersects zone" ELSE "contains zone",
                      zone_box, detection_box)
             ELSE ScanZones(st, device_id, zones, detections, inputDimensions, i, j + 1, FALSE)

\* The device id of the event: recordedEvent["id"], else the second part of
\* options["data"]["snoozeId"]; "" when neither is there, "?" when the
\* snoozeId has no second part.
NoDeviceId == ""
BadSnoozeId == "?"
DeviceIdOf(ev) ==
    IF ev.id # None THEN ev.id
    ELSE IF ev.snoozeId = << >> THEN NoDeviceId
    ELSE IF Len(ev.snoozeId) < 2 THEN BadSnoozeId
    ELSE ev.snoozeId[2]

\* EvaluateEvent with the detections looked at before the zones.
EvaluateEventDetectionsFirst(preset, st, ev) ==
    IF ~ ev.hasOptions THEN ShouldSendNotification("no options", << >>, << >>)
    ELSE IF ~ ev.hasRecordedEvent THEN ShouldSendNotification("no recordedEvent", << >>, << >>)
    ELSE IF DeviceIdOf(ev) = NoDeviceId THEN ShouldSendNotification("no device id", << >>, << >>)
    ELSE IF DeviceIdOf(ev) = BadSnoozeId THEN Exception("IndexError")
    ELSE IF ~ ev.hasDetections THEN ShouldSendNotification("no detections", << >>, << >>)
    ELSE IF ~ ev.hasInputDimensions THEN ShouldSendNotification("no inputDimensions", << >>, << >>)
    ELSE IF preset = None THEN Exception("AttributeError")
    ELSE IF zones_of(st, DeviceIdOf(ev)) = << >> THEN ShouldSendNotification("no zones", << >>, << >>)
    ELSE ScanZones(st, DeviceIdOf(ev), zones_of(st, DeviceIdOf(ev)), ev.detections,
                   ev.inputDimensions, 1, 1, TRUE)

\* The try block from the choice of the preset object on (lines 376-429).
EvaluateEvent(preset, st, ev) ==
    IF ~ ev.hasOptions THEN ShouldSendNotification("no options", << >>, << >>)
    ELSE IF ~ ev.hasRecordedEvent THEN ShouldSendNotification("no recordedEvent", << >>, << >>)
    ELSE IF DeviceIdOf(ev) = NoDeviceId THEN ShouldSendNotification("no device id", << >>, << >>)
    ELSE IF DeviceIdOf(ev) = BadSnoozeId THEN Exception("IndexError")
    ELSE IF preset = None THEN Exception("AttributeError")
    ELSE IF zones_of(st, DeviceIdOf(ev)) = << >> THEN ShouldSendNotification("no zones", << >>, << >>)
    ELSE IF ~ ev.hasDetections THEN ShouldSendNotification("no detections", << >>, << >>)
    ELSE IF ~ ev.hasInputDimensions THEN ShouldSendNotification("no inputDimensions", << >>, << >>)
    ELSE ScanZones(st, DeviceIdOf(ev), zones_of(st, DeviceIdOf(ev)), ev.detections,
                   ev.inputDimensions, 1, 1, TRUE)

\* The preset object the try block settles on (lines 371-374): the mixin
\* itself, a live preset, or None.
PresetOf(st, presets) ==
    IF use_custom(st) THEN Self
    ELSE get_preset_by_scrypted_id(presets, selected_preset(st))

\* The storage a preset object reads its zones from.
StorageOf(preset, st, pst) ==
    IF preset = Self THEN st
    ELSE IF preset \in PresetIds THEN pst[preset]
    ELSE EmptyStorage

\* The whole try block (lines 365-429).
TryBlock(st, pst, devices, presets, c, ev) ==
    IF ~ use_custom(st) /\ selected_preset(st) = None
    THEN ShouldSendNotification("no preset selected", << >>, << >>)
    ELSE IF ~ use_custom(st)
            /\ get_device_from_scrypted(c, devices, selected_preset(st)) = CachedNone
    THEN ShouldSendNotification("preset not found", << >>, << >>)
    ELSE EvaluateEvent(PresetOf(st, presets),
                       StorageOf(PresetOf(st, presets), st, pst), ev)

\* The cache after the try block: the one lookup it may make.
CacheAfterTry(st, devices, c) ==
    IF ~ use_custom(st) /\ selected_preset(st) # None
    THEN CacheAfterLookup(c, devices, selected_preset(st))
    ELSE c

(***************************************************************************)
(* sendNotification: the handlers (lines 430-452).                         *)
(***************************************************************************)
Forward == "Forward"
Suppress == "Suppress"

OriginalMedia == "original"
DebugSnapshot == "debug snapshot"

\* The media handed downstream after a ShouldSendNotification: the debug
\* snapshot when debug_zones is on, both polygons are there and taking and
\* drawing the snapshot worked; else the caller's media.
MediaSent(st, raised, snapshotOK) ==
    IF /\ raised.kind = "ShouldSendNotification"
       /\ debug_zones(st)
       /\ raised.zone_bbox # << >>
       /\ raised.obj_bbox # << >>
       /\ snapshotOK
    THEN DebugSnapshot
    ELSE OriginalMedia

\* CallRecord without the except Exception clause: an unexpected exception
\* leaves sendNotification and nothing is sent.
CallRecordNoHandler(ev, raised, st, snapshotOK, sendOK) ==
    [ called    |-> TRUE,
      event     |-> ev,
      verdict   |-> IF raised.kind = "ShouldSendNotification" THEN Forward ELSE Suppress,
      kind      |-> raised.kind,
      reason    |-> raised.reason,
      zone_bbox |-> raised.zone_bbox,
      obj_bbox  |-> raised.obj_bbox,
      sends     |-> IF raised.kind = "ShouldSendNotification" THEN 1 ELSE 0,
      media     |-> MediaSent(st, raised, snapshotOK),
      failed    |-> raised.kind = "Exception"
                    \/ (raised.kind = "ShouldSendNotification" /\ ~ sendOK) ]

\* What one call did: the exception the try block ended with, the number of
\* calls of mixinDevice.sendNotification, the media of that call, and whether
\* the call failed and its exception left sendNotification.
CallRecord(ev, raised, st, snapshotOK, sendOK) ==
    [ called    |-> TRUE,
      event     |-> ev,
      verdict   |-> IF raised.kind = "else" THEN Suppress ELSE Forward,
      kind      |-> raised.kind,
      reason    |-> raised.reason,
      zone_bbox |-> raised.zone_bbox,
      obj_bbox  |-> raised.obj_bbox,
      sends     |-> IF raised.kind = "else" THEN 0 ELSE 1,
      media     |-> MediaSent(st, raised, snapshotOK),
      failed    |-> raised.kind # "else" /\ ~ sendOK ]

\* No call to look at.
NoCall ==
    [ called    |-> FALSE,
      event     |-> Event(FALSE, FALSE, None, << >>, FALSE, FALSE, << >>),
      verdict   |-> Suppress,
      kind      |-> "else",
      reason    |-> "",
      zone_bbox |-> << >>,
      obj_bbox  |-> << >>,
      sends     |-> 0,
      media     |-> OriginalMedia,
      failed    |-> FALSE ]

\* NotificationFilterMixin.sendNotification
SendNotification(ev, snapshotOK, sendOK) ==
    /\ last' = CallRecord(ev,
                   TryBlock(storage, presetStorage, systemDevices, preset_devices, cache, ev),
                   storage, snapshotOK, sendOK)
    /\ cache' = CacheAfterTry(storage, systemDevices, cache)
    /\ cacheAlone' = CacheAfterTry(storage, systemDevices, cacheAlone)
    /\ UNCHANGED << storage, presetStorage, systemDevices, preset_devices, tasks >>

(***************************************************************************)
(* sendNotification as a coroutine.  The try block has no await and runs   *)
(* in one step; a handler gives way to the other coroutines at each of its *)
(* awaits.  The position of a coroutine is the line of the await it is at. *)
(***************************************************************************)
TaskIds == 1..MaxTasks

AtInfo == "431 mixinConsole.info"
AtTakePicture == "436 takePicture"
AtSend == "446 mixinDevice.sendNotification"
AtError == "448 mixinConsole.error"
AtSendAfterError == "449 mixinDevice.sendNotification"
AtSkip == "452 mixinConsole.info"
Returned == "returned"

NoMedia == "nothing sent"

\* A coroutine that is not running.  Its locals: the exception raised by the
\* try block, media; what it did: the outcome of the debug snapshot, the
\* media and the number of the downstream sends, whether an exception left
\* it.  alone and disturbed are for the comparison with a run on its own.
IdleTask ==
    [ pc        |-> "idle",
      event     |-> Event(FALSE, FALSE, None, << >>, FALSE, FALSE, << >>),
      raised    |-> NothingRaised,
      alone     |-> NothingRaised,
      snapshot  |-> "none",
      media     |-> OriginalMedia,
      sent      |-> NoMedia,
      sends     |-> 0,
      failed    |-> FALSE,
      disturbed |-> FALSE ]

\* The coroutines in flight see a change of the configuration.
Disturbed(tk) ==
    [ t \in TaskIds |->
        IF tk[t].pc = "idle" THEN tk[t] ELSE [tk[t] EXCEPT !.disturbed = TRUE] ]

\* The handler an exception of the try block goes to.
HandlerOf(raised) ==
    CASE raised.kind = "ShouldSendNotification" -> AtInfo
      [] raised.kind = "Exception"              -> AtError
      [] raised.kind = "else"                   -> AtSkip

\* The try block of coroutine t for the event ev (lines 364-429).
Begin(t, ev) ==
    /\ tasks[t].pc = "idle"
    /\ LET raised == TryBlock(storage, presetStorage, systemDevices, preset_devices, cache, ev)
           alone == TryBlock(storage, presetStorage, systemDevices, preset_devices,
                             cacheAlone, ev)
       IN  tasks' = [tasks EXCEPT ![t] =
                       [IdleTask EXCEPT !.pc = HandlerOf(raised),
                                        !.event = ev,
                                        !.raised = raised,
                                        !.alone = alone,
                                        !.disturbed = \E u \in TaskIds : tasks[u].disturbed]]
    /\ cache' = CacheAfterTry(storage, systemDevices, cache)
    /\ last' = NoCall
    /\ UNCHANGED << storage, presetStorage, systemDevices, preset_devices, cacheAlone >>

\* NeedsSnapshot without the test of the two polygons.
NeedsSnapshotNoEvidence(st, raised) == debug_zones(st)

\* The condition of line 433.
NeedsSnapshot(st, raised) ==
    /\ debug_zones(st)
    /\ raised.zone_bbox # << >>
    /\ raised.obj_bbox # << >>

\* Line 431 is through; line 433 picks the next await.
LogReason(t) ==
    /\ tasks[t].pc = AtInfo
    /\ tasks' = [tasks EXCEPT ![t].pc =
                   IF NeedsSnapshot(storage, tasks[t].raised) THEN AtTakePicture ELSE AtSend]
    /\ last' = NoCall
    /\ UNCHANGED << storage, presetStorage, systemDevices, preset_devices, cache, cacheAlone >>

\* Lines 434-444: the snapshot is taken, drawn on and made the media, or one
\* of these steps fails and the failure is logged.
TakeSnapshot(t, ok) ==
    /\ tasks[t].pc = AtTakePicture
    /\ tasks' = [tasks EXCEPT ![t].pc = AtSend,
                              ![t].snapshot = IF ok THEN "ok" ELSE "failed",
                              ![t].media = IF ok THEN DebugSnapshot ELSE @]
    /\ last' = NoCall
    /\ UNCHANGED << storage, presetStorage, systemDevices, preset_devices, cache, cacheAlone >>

\* SentMedia with media kept on the mixin instead of in a local.
SentMediaShared(tk, t) ==
    IF \E u \in TaskIds : tk[u].media = DebugSnapshot THEN DebugSnapshot ELSE tk[t].media

\* The media argument of the downstream send: the local of the coroutine.
SentMedia(tk, t) == tk[t].media

\* AfterSend with the failure of line 446 caught by the clause of line 447.
AfterSendCaught(pc, ok) == IF pc = AtSend /\ ~ ok THEN AtError ELSE Returned

\* Where a coroutine goes after its downstream send: the call is the last
\* statement of its handler, and an exception it raises leaves the coroutine.
AfterSend(pc, ok) == Returned

\* Lines 446 and 449: the downstream send, which works or raises.
SendDownstream(t, ok) ==
    /\ tasks[t].pc \in {AtSend, AtSendAfterError}
    /\ tasks' = [tasks EXCEPT ![t].pc = AfterSend(tasks[t].pc, ok),
                              ![t].sends = @ + 1,
                              ![t].sent = SentMedia(tasks, t),
                              ![t].failed = ~ ok]
    /\ last' = NoCall
    /\ UNCHANGED << storage, presetStorage, systemDevices, preset_devices, cache, cacheAlone >>

\* Line 448 is through.
LogFailure(t) ==
    /\ tasks[t].pc = AtError
    /\ tasks' = [tasks EXCEPT ![t].pc = AtSendAfterError]
    /\ last' = NoCall
    /\ UNCHANGED << storage, presetStorage, systemDevices, preset_devices, cache, cacheAlone >>

\* Line 452 is through.
LogSkip(t) ==
    /\ tasks[t].pc = AtSkip
    /\ tasks' = [tasks EXCEPT ![t].pc = Returned]
    /\ last' = NoCall
    /\ UNCHANGED << storage, presetStorage, systemDevices, preset_devices, cache, cacheAlone >>

\* The call of a coroutine, as a record of the kind CallRecord builds.
TaskRecord(tk) ==
    [ called    |-> TRUE,
      event     |-> tk.event,
      verdict   |-> IF tk.raised.kind = "else" THEN Suppress ELSE Forward,
      kind      |-> tk.raised.kind,
      reason    |-> tk.raised.reason,
      zone_bbox |-> tk.raised.zone_bbox,
      obj_bbox  |-> tk.raised.obj_bbox,
      sends     |-> tk.sends,
      media     |-> tk.media,
      failed    |-> tk.failed ]

\* The coroutine is over.  With no other in flight, the lookups of the
\* coroutines in flight are the lookups of the past.
Return(t) ==
    /\ tasks[t].pc = Returned
    /\ tasks' = [tasks EXCEPT ![t] = IdleTask]
    /\ last' = TaskRecord(tasks[t])
    /\ cacheAlone' = IF \A u \in TaskIds \ {t} : tasks[u].pc = "idle" THEN cache ELSE cacheAlone
    /\ UNCHANGED << storage, presetStorage, systemDevices, preset_devices, cache >>

(***************************************************************************)
(* Settings.                                                               *)
(***************************************************************************)
\* A storage key: "use_custom", ..., "<camera>:zones", "<camera>:zone:<zone>"
\* or "<camera>:zone:<zone>:type".
Key(name, camera, zone) == [ name |-> name, camera |-> camera, zone |-> zone ]

\* device_to_readable: "<name> (id: <id>)", as its words.
device_to_readable(device_id) == << "Preset", "(id:", device_id >>

\* readable_to_device: the last word, without the closing parenthesis.
readable_to_device(readable) == readable[Len(readable)]

\* storage.setItem
setItem(st, key, value) ==
    CASE key.name = "use_custom"      -> [st EXCEPT !.use_custom = value]
      [] key.name = "debug_zones"     -> [st EXCEPT !.debug_zones = value]
      [] key.name = "selected_preset" -> [st EXCEPT !.selected_preset = value]
      [] key.name = "selected_camera" -> [st EXCEPT !.selected_camera = value]
      [] key.name = "zones"           -> [st EXCEPT !.zones[key.camera] = value]
      [] key.name = "zone"            -> [st EXCEPT !.zone[key.camera][key.zone] = value]
      [] key.name = "type"            -> [st EXCEPT !.type[key.camera][key.zone] = value]

\* The keys of editor_settings (lines 262-311): the selected camera, and the
\* zone list, clip paths and types of the selected camera's zones.
EditorKeys(st) ==
    { Key("selected_camera", None, None) }
    \cup IF st.selected_camera = None THEN {}
         ELSE { Key("zones", st.selected_camera, None) }
              \cup { Key(n, st.selected_camera, zones_of(st, st.selected_camera)[k]) :
                       n \in {"zone", "type"},
                       k \in 1..Len(zones_of(st, st.selected_camera)) }

\* get_all_detector_cameras, run by editor_settings: a lookup of every device
\* of the system state.
CacheAfterEditorSettings(c, devices) ==
    [ p \in PresetIds |->
        IF p \in devices THEN get_device_from_scrypted(c, devices, p) ELSE c[p] ]

\* NotificationFilterMixin.putSetting
PutSetting(key, value) ==
    /\ storage' =
         IF key \in EditorKeys(storage)
                    \cup { Key(n, None, None) : n \in {"debug_zones", "use_custom", "selected_preset"} }
         THEN setItem(storage, key,
                      IF key.name \in {"selected_camera", "selected_preset"}
                      THEN readable_to_device(value) ELSE value)
         ELSE storage
    /\ cache' = CacheAfterEditorSettings(cache, systemDevices)
    /\ cacheAlone' = CacheAfterEditorSettings(cacheAlone, systemDevices)
    /\ last' = NoCall
    /\ tasks' = Disturbed(tasks)
    /\ UNCHANGED << presetStorage, systemDevices, preset_devices >>

\* The cache after the lookups of getSettings (lines 454-496).
CacheAfterGetSettings(st, devices, presets, c) ==
    IF use_custom(st)
    THEN CacheAfterEditorSettings(c, devices)
    ELSE LET shown == [ p \in PresetIds |->
                          IF p \in presets
                          THEN get_device_from_scrypted(c, devices, p)
                          ELSE c[p] ]
         IN  IF selected_preset(st) = None THEN shown
             ELSE CacheAfterLookup(shown, devices, selected_preset(st))

\* NotificationFilterMixin.getSettings: the lookups of the settings it shows.
GetSettings ==
    /\ cache' = CacheAfterGetSettings(storage, systemDevices, preset_devices, cache)
    /\ cacheAlone' = CacheAfterGetSettings(storage, systemDevices, preset_devices, cacheAlone)
    /\ last' = NoCall
    /\ UNCHANGED << storage, presetStorage, systemDevices, preset_devices, tasks >>

\* NotificationFilterPreset.putSetting, of the live preset p
PresetPutSetting(p, key, value) ==
    /\ p \in preset_devices
    /\ presetStorage' =
         [presetStorage EXCEPT ![p] =
            setItem(@, key, IF key.name = "selected_camera"
                            THEN readable_to_device(value) ELSE value)]
    /\ last' = NoCall
    /\ tasks' = Disturbed(tasks)
    /\ UNCHANGED << storage, systemDevices, preset_devices, cache, cacheAlone >>

(***************************************************************************)
(* Preset devices.                                                         *)
(***************************************************************************)
\* NotificationFilter.createDevice with getDevice: the host registers a new
\* device under a fresh id, the plugin builds the preset object.  An id that
\* no cache entry and no setting refers to is as good as one never given out.
CreateDevice(id) ==
    /\ id \notin systemDevices
    /\ cache[id] = NoEntry
    /\ selected_preset(storage) # id
    /\ systemDevices' = systemDevices \cup {id}
    /\ preset_devices' = preset_devices \cup {id}
    /\ presetStorage' = [presetStorage EXCEPT ![id] = EmptyStorage]
    /\ last' = NoCall
    /\ tasks' = Disturbed(tasks)
    /\ UNCHANGED << storage, cache, cacheAlone >>

\* NotificationFilter.releaseDevice, as the host removes the device.
ReleaseDevice(id) ==
    /\ id \in systemDevices
    /\ systemDevices' = systemDevices \ {id}
    /\ preset_devices' = preset_devices \ {id}
    /\ presetStorage' = [presetStorage EXCEPT ![id] = EmptyStorage]
    /\ last' = NoCall
    /\ tasks' = Disturbed(tasks)
    /\ UNCHANGED << storage, cache, cacheAlone >>

\* The ttl of a cache entry runs out.
CacheExpire(id) ==
    /\ cache[id] # NoEntry
    /\ cache' = [cache EXCEPT ![id] = NoEntry]
    /\ cacheAlone' = [cacheAlone EXCEPT ![id] = NoEntry]
    /\ last' = NoCall
    /\ UNCHANGED << storage, presetStorage, systemDevices, preset_devices, tasks >>

(***************************************************************************)
(* The state machine.                                                      *)
(***************************************************************************)
Init ==
    /\ storage = EmptyStorage
    /\ presetStorage = [p \in PresetIds |-> EmptyStorage]
    /\ systemDevices = {}
    /\ preset_devices = {}
    /\ cache = [p \in PresetIds |-> NoEntry]
    /\ last = NoCall
    /\ tasks = [t \in TaskIds |-> IdleTask]
    /\ cacheAlone = [p \in PresetIds |-> NoEntry]

\* The settings written through the mixin: the custom zones switch, a preset
\* among the choices getSettings offers, and custom zones for the first camera.
MixinSettings ==
    { << Key("use_custom", None, None), v >> : v \in BOOLEAN }

MixinChoices ==
    { << Key("selected_preset", None, None), device_to_readable(p) >> : p \in preset_devices }
    \cup { << Key("selected_camera", None, None), device_to_readable("cam1") >> }

MixinZones ==
    { << Key("zones", "cam1", None), v >> : v \in { << >>, <<"z1">> } }
    \cup { << Key("zone", "cam1", "z1"), v >> : v \in { NoPath, FramePath } }

\* The settings written to a preset: zones of the first camera.
PresetZoneLists ==
    { << Key("zones", "cam1", None), v >> :
        v \in { << >>, <<"z1">>, <<"z1", "z2">> } }

PresetZonePaths ==
    { << Key("zone", "cam1", "z1"), v >> : v \in Paths }
    \cup { << Key("zone", "cam1", "z2"), v >> : v \in { NoPath, FramePath } }

\* A zone without a stored type is an Intersect zone (zone_type_of).
PresetZoneTypes ==
    { << Key("type", "cam1", "z1"), v >> : v \in {"Contain"} }

Next ==
    \/ \E ev \in Events : SendNotification(ev, TRUE, TRUE)
    \/ \E kv \in MixinSettings : PutSetting(kv[1], kv[2])
    \/ \E kv \in MixinChoices : PutSetting(kv[1], kv[2])
    \/ \E kv \in MixinZones : PutSetting(kv[1], kv[2])
    \/ GetSettings
    \/ \E p \in PresetIds, kv \in PresetZoneLists : PresetPutSetting(p, kv[1], kv[2])
    \/ \E p \in PresetIds, kv \in PresetZonePaths : PresetPutSetting(p, kv[1], kv[2])
    \/ \E p \in PresetIds, kv \in PresetZoneTypes : PresetPutSetting(p, kv[1], kv[2])
    \/ \E id \in PresetIds : CreateDevice(id)
    \/ \E id \in PresetIds : ReleaseDevice(id)
    \/ \E id \in PresetIds : CacheExpire(id)

Spec == Init /\ [][Next]_vars

\* Coroutines: the events they are called for, and the settings written
\* while they run.
TaskEvents ==
    { Event(TRUE, TRUE, "cam1", << >>, TRUE, TRUE, << [boundingBox |-> <<0, 0, 4, 4>>] >>),
      Event(TRUE, TRUE, "cam1", << >>, TRUE, TRUE, << [boundingBox |-> <<3, 3, 1, 1>>] >>) }

TaskSettings ==
    { << Key("debug_zones", None, None), v >> : v \in BOOLEAN }

TaskChoices ==
    { << Key("selected_preset", None, None), device_to_readable(p) >> : p \in preset_devices }

TaskZones ==
    { << Key("zones", "cam1", None), <<"z1">> >> }
    \cup { << Key("zone", "cam1", "z1"), v >> : v \in { ShortPath, TrianglePath } }

\* The settings and zones the try block reads are written between the
\* calls, the debug switch, which the handler reads after an await, at any
\* time.
\* No coroutine is in flight.
Quiescent == \A t \in TaskIds : tasks[t].pc = "idle"

NextTasks ==
    \/ \E t \in TaskIds, ev \in TaskEvents : Begin(t, ev)
    \/ \E t \in TaskIds : LogReason(t)
    \/ \E t \in TaskIds, ok \in BOOLEAN : TakeSnapshot(t, ok)
    \/ \E t \in TaskIds, ok \in BOOLEAN : SendDownstream(t, ok)
    \/ \E t \in TaskIds : LogFailure(t)
    \/ \E t \in TaskIds : LogSkip(t)
    \/ \E t \in TaskIds : Return(t)
    \/ \E kv \in TaskSettings : PutSetting(kv[1], kv[2])
    \/ \E kv \in TaskChoices : Quiescent /\ PutSetting(kv[1], kv[2])
    \/ GetSettings
    \/ \E p \in PresetIds, kv \in TaskZones : Quiescent /\ PresetPutSetting(p, kv[1], kv[2])
    \/ \E id \in PresetIds : Quiescent /\ CreateDevice(id)
    \/ \E id \in PresetIds : Quiescent /\ ReleaseDevice(id)
    \/ \E id \in PresetIds : CacheExpire(id)

SpecTasks == Init /\ [][NextTasks]_vars

(***************************************************************************)
(* Properties.  They are read in the state right after a call: every other *)
(* action resets last, so the settings and the presets of such a state are *)
(* those the call ran with.                                                *)
(***************************************************************************)
\* The notifier has a zone profile: its custom zones, or a selected preset
\* that exists.
HasProfile ==
    \/ storage.use_custom
    \/ storage.selected_preset \in preset_devices

\* The storage holding that profile.
ProfileStorage ==
    IF storage.use_custom THEN storage ELSE presetStorage[storage.selected_preset]

\* The event names a camera: it has options, a recordedEvent and a device id.
HasCamera(ev) ==
    /\ ev.hasOptions
    /\ ev.hasRecordedEvent
    /\ \/ ev.id # None
       \/ Len(ev.snoozeId) >= 2

CameraOf(ev) == IF ev.id # None THEN ev.id ELSE ev.snoozeId[2]

\* The event has all it takes to test zones: a camera, a detections list and
\* the frame size.
IsComplete(ev) == HasCamera(ev) /\ ev.hasDetections /\ ev.hasInputDimensions

\* The zones of the profile for the camera of the last event: their clip
\* paths and types, in zone order.
ProfileZones ==
    LET names == IF CameraOf(last.event) \in Cameras
                 THEN ProfileStorage.zones[CameraOf(last.event)] ELSE << >>
    IN  [ k \in 1..Len(names) |->
            [ path   |-> ProfileStorage.zone[CameraOf(last.event)][names[k]],
              toType |-> IF ProfileStorage.type[CameraOf(last.event)][names[k]] = "Contain"
                         THEN "Contain" ELSE "Intersect" ] ]

\* The reasons of the source by the spec's reason codes.
NoZonesConfigured == "no zones"
NoPresetSelected == "no preset selected"
PresetNotFound == "preset not found"
ZoneIntersect == "intersects zone"
ZoneContain == "contains zone"
NoZoneMatched == "nothing matched"
NothingToEvaluate == {"no detections", "no inputDimensions", "no detections or no zones"}

\* The scaled polygon of a clip path, for the frame of the last event.
ScaledPolygon(path) ==
    [ k \in 1..Len(path) |->
        << path[k][1] * last.event.inputDimensions[1],
           path[k][2] * last.event.inputDimensions[2] >> ]

\* The rectangle of the i-th detection of the last event.
BoxPolygon(i) ==
    LET b == last.event.detections[i].boundingBox
    IN  << <<b[1] + b[3], b[2]>>, <<b[1] + b[3], b[2] + b[4]>>,
           <<b[1], b[2] + b[4]>>, <<b[1], b[2]>> >>

\* The detections of the last event that carry a bounding box.
Boxed == { i \in 1..Len(last.event.detections) :
             last.event.detections[i].boundingBox # NoBoundingBox }

\* C1: a call for a camera without zones in the notifier's profile forwards
\* the notification with the reason "no zones", whatever the detections, the
\* detections list and the frame size of the event.
C1_NoZonesForwards ==
    ( /\ last.called
      /\ HasProfile
      /\ HasCamera(last.event)
      /\ Len(ProfileZones) = 0 )
    => ( /\ last.verdict = Forward
         /\ last.kind = "ShouldSendNotification"
         /\ last.reason = NoZonesConfigured
         /\ last.sends = 1 )

\* Witness of C1: such a call for an event without a detections list, under a
\* selected preset.
C1_Witness ==
    /\ last.called
    /\ ~ storage.use_custom
    /\ HasProfile
    /\ HasCamera(last.event)
    /\ Len(ProfileZones) = 0
    /\ ~ last.event.hasDetections
    /\ last.reason = NoZonesConfigured

\* C2: a profile with one Contain zone (three vertices or more) and an event
\* with one boxed detection: the notification is forwarded with the reason
\* "contains zone" if the zone polygon contains the detection box, and the
\* zone does not match (the notification is skipped) if it does not.
C2_ContainIsZoneContainsBox ==
    ( /\ last.called
      /\ HasProfile
      /\ IsComplete(last.event)
      /\ Len(ProfileZones) = 1
      /\ Len(ProfileZones[1].path) >= 3
      /\ ProfileZones[1].toType = "Contain"
      /\ Len(last.event.detections) = 1
      /\ Boxed = {1} )
    => IF contains(ScaledPolygon(ProfileZones[1].path), BoxPolygon(1))
       THEN last.verdict = Forward /\ last.reason = ZoneContain
       ELSE last.verdict = Suppress

\* C3: if the camera has zones and each of them has fewer than three
\* vertices, a call with a complete event forwards the notification with the
\* reason "no detections or no zones" (nothing to evaluate), not through the
\* handler of unexpected exceptions.
C3_ShortZonesAreSkipped ==
    ( /\ last.called
      /\ HasProfile
      /\ IsComplete(last.event)
      /\ Len(ProfileZones) > 0
      /\ \A k \in 1..Len(ProfileZones) : Len(ProfileZones[k].path) < 3 )
    => ( /\ last.verdict = Forward
         /\ last.kind = "ShouldSendNotification"
         /\ last.reason \in NothingToEvaluate )

\* C4: once the preset a notifier refers to (use_custom off, selected_preset
\* set) is deleted, a call for an event that names a camera ends with the
\* reason "preset not found" and forwards; it does not end in the handler of
\* unexpected exceptions, whatever the lookup cache holds.
C4_DeletedPresetIsNotFound ==
    ( /\ last.called
      /\ ~ storage.use_custom
      /\ storage.selected_preset # None
      /\ storage.selected_preset \notin systemDevices
      /\ HasCamera(last.event) )
    => ( /\ last.verdict = Forward
         /\ last.kind = "ShouldSendNotification"
         /\ last.reason = PresetNotFound )

\* C5: with use_custom off, a call for an event that names a camera has one
\* of three outcomes: "no preset selected" without a selected id, "preset not
\* found" for a selected id that no preset has, and otherwise what the zones
\* which the selected preset stores for the event's camera give.
C5_PresetResolution ==
    ( /\ last.called
      /\ ~ storage.use_custom
      /\ HasCamera(last.event) )
    => IF storage.selected_preset = None
       THEN last.kind = "ShouldSendNotification" /\ last.reason = NoPresetSelected
       ELSE IF storage.selected_preset \notin preset_devices
       THEN last.kind = "ShouldSendNotification" /\ last.reason = PresetNotFound
       ELSE LET r == EvaluateEvent(storage.selected_preset,
                                   presetStorage[storage.selected_preset], last.event)
            IN  /\ last.kind = r.kind
                /\ last.reason = r.reason
                /\ last.zone_bbox = r.zone_bbox
                /\ last.obj_bbox = r.obj_bbox

\* The profile has one zone for the camera, an Intersect zone of three
\* vertices or more, and the event is complete.
OneIntersectZone ==
    /\ last.called
    /\ HasProfile
    /\ IsComplete(last.event)
    /\ Len(ProfileZones) = 1
    /\ Len(ProfileZones[1].path) >= 3
    /\ ProfileZones[1].toType = "Intersect"

\* The boxed detections whose box shares a point with the one zone.
Hits ==
    { i \in Boxed : intersects(BoxPolygon(i), ScaledPolygon(ProfileZones[1].path)) }

\* C6: with one Intersect zone and a detection box that shares a point with
\* its scaled polygon, the notification is forwarded with the reason
\* "intersects zone", and the evidence is the scaled polygon of the zone with
\* the box of the first such detection.
C6_IntersectForwards ==
    ( OneIntersectZone /\ Hits # {} )
    => ( /\ last.verdict = Forward
         /\ last.reason = ZoneIntersect
         /\ last.zone_bbox = ScaledPolygon(ProfileZones[1].path)
         /\ \E i \in Hits :
              /\ \A j \in Hits : i <= j
              /\ last.obj_bbox = BoxPolygon(i) )

\* Witness of C6: the match is a box that only touches the border of a
\* triangular zone, after a detection that misses it.
C6_Witness ==
    /\ OneIntersectZone
    /\ ProfileZones[1].path = TrianglePath
    /\ Hits = {2}
    /\ last.event.detections[2].boundingBox = <<2, 2, 1, 1>>
    /\ last.reason = ZoneIntersect

\* C7 as stated: with one Intersect zone and an event all of whose detections
\* have a box that shares no point with its scaled polygon, the notification
\* is skipped.
C7_NoIntersectSuppresses_Original ==
    ( /\ OneIntersectZone
      /\ Boxed = 1..Len(last.event.detections)
      /\ Hits = {} )
    => ( /\ last.verdict = Suppress
         /\ last.sends = 0 )

\* C7, amended: the same for an event with at least one detection.
C7_NoIntersectSuppresses ==
    ( /\ OneIntersectZone
      /\ Len(last.event.detections) >= 1
      /\ Boxed = 1..Len(last.event.detections)
      /\ Hits = {} )
    => ( /\ last.verdict = Suppress
         /\ last.kind = "else"
         /\ last.reason = NoZoneMatched
         /\ last.sends = 0 )

\* Witness of C7: two boxed detections, none of which reaches the zone.
C7_Witness ==
    /\ OneIntersectZone
    /\ Len(last.event.detections) = 2
    /\ Boxed = {1, 2}
    /\ Hits = {}
    /\ last.verdict = Suppress

\* The notifier's configuration is in error: no preset is selected, the
\* selected preset is missing, or the camera's zones all lack a polygon.
ConfigurationError ==
    \/ /\ ~ storage.use_custom
       /\ storage.selected_preset \notin preset_devices
    \/ /\ HasProfile
       /\ HasCamera(last.event)
       /\ Len(ProfileZones) > 0
       /\ \A k \in 1..Len(ProfileZones) : Len(ProfileZones[k].path) < 3

\* The payload lacks what a test of zones needs: options, recordedEvent, a
\* device id, the detections list, inputDimensions, or a detection with a
\* bounding box.
MalformedPayload ==
    \/ ~ IsComplete(last.event)
    \/ Boxed = {}

\* C8: every call ends in a decision, Forward (one downstream send) or
\* Suppress (none), no exception of the evaluation leaves the call, and a
\* call under a configuration error or with a malformed payload forwards.
C8_AlwaysADecision ==
    last.called
    => ( /\ last.kind \in {"ShouldSendNotification", "Exception", "else"}
         /\ \/ last.verdict = Forward /\ last.sends = 1
            \/ last.verdict = Suppress /\ last.sends = 0
         /\ ~ last.failed
         /\ (ConfigurationError \/ MalformedPayload) => last.verdict = Forward )

\* Witness of C8: a geometry error inside the loop (a zone of two points, a
\* boxed detection) that ends in Forward.
C8_Witness ==
    /\ last.called
    /\ ConfigurationError
    /\ ~ MalformedPayload
    /\ last.kind = "Exception"
    /\ last.reason = "ValueError"
    /\ last.verdict = Forward

\* The pairs (detection, zone) of the last call, boxed detections against
\* zones of three vertices or more, that pass the test of the zone's type.
MatchingPairs ==
    { p \in Boxed \X (1..Len(ProfileZones)) :
        /\ Len(ProfileZones[p[2]].path) >= 3
        /\ ZoneMatches(ProfileZones[p[2]].toType, BoxPolygon(p[1]),
                       ScaledPolygon(ProfileZones[p[2]].path)) }

\* Detection-major order of the pairs.
NotAfter(p, q) == p[1] < q[1] \/ (p[1] = q[1] /\ p[2] <= q[2])

\* C9: if some pair matches, the call forwards with the reason and the
\* evidence of the first matching pair in detection-major order, whatever
\* the pairs after it are.
C9_FirstMatchWins ==
    ( /\ last.called
      /\ HasProfile
      /\ IsComplete(last.event)
      /\ MatchingPairs # {} )
    => \E p \in MatchingPairs :
         /\ \A q \in MatchingPairs : NotAfter(p, q)
         /\ last.verdict = Forward
         /\ last.kind = "ShouldSendNotification"
         /\ last.reason = IF ProfileZones[p[2]].toType = "Intersect"
                          THEN ZoneIntersect ELSE ZoneContain
         /\ last.zone_bbox = ScaledPolygon(ProfileZones[p[2]].path)
         /\ last.obj_bbox = BoxPolygon(p[1])

\* C10: a call gives the verdict and the reason that a call for the same
\* event gives under the same settings, zones and presets with an empty
\* lookup cache: what earlier calls and lookups left in the cache has no
\* part in the result.
C10_NoCarriedState ==
    last.called
    => LET r == TryBlock(storage, presetStorage, systemDevices, preset_devices,
                         [p \in PresetIds |-> NoEntry], last.event)
       IN  /\ last.verdict = (IF r.kind = "else" THEN Suppress ELSE Forward)
           /\ last.reason = r.reason

\* What coroutine t would have done on its own: the try block on the cache
\* without the lookups of the others, then the handlers with the same luck
\* in the snapshot and in the downstream send.
RunAlone(t) ==
    CallRecord(tasks[t].event, tasks[t].alone, storage,
               tasks[t].snapshot # "failed", ~ tasks[t].failed)

\* C11: a coroutine that is through, with the configuration as it was when
\* it began, has the verdict, the reason, the evidence, the number of
\* downstream sends and the media sent downstream that it has when it runs
\* on its own, however its awaits interleave with those of the others.
C11_NoInterference ==
    \A t \in TaskIds :
        ( tasks[t].pc = Returned /\ ~ tasks[t].disturbed )
        => /\ TaskRecord(tasks[t]) = RunAlone(t)
           /\ tasks[t].sent = IF RunAlone(t).sends = 0 THEN NoMedia ELSE RunAlone(t).media

\* Witness of C11: a coroutine skipped its notification while another, begun
\* before it ended and the first to look the preset up, holds a debug
\* snapshot it has yet to send.
C11_Witness ==
    \E t, u \in TaskIds :
        /\ t # u
        /\ tasks[t].pc = Returned
        /\ ~ tasks[t].disturbed
        /\ tasks[t].raised.kind = "else"
        /\ tasks[u].pc = AtSend
        /\ tasks[u].media = DebugSnapshot
        /\ cacheAlone # cache

\* The zones of the last call's camera that are active: three vertices or
\* more.
ActiveZones == { k \in 1..Len(ProfileZones) : Len(ProfileZones[k].path) >= 3 }

\* C12: a call skips the notification only if the camera has an active zone,
\* the event has a boxed detection and no pair of them matches; and a call
\* with a complete event for a camera with zones, none of them active or no
\* detection boxed, forwards with a nothing-to-evaluate reason.
C12_SuppressOnlyAfterEvaluation ==
    last.called
    => /\ last.verdict = Suppress
          => ( /\ HasProfile
               /\ IsComplete(last.event)
               /\ ActiveZones # {}
               /\ Boxed # {}
               /\ MatchingPairs = {} )
       /\ ( /\ HasProfile
            /\ IsComplete(last.event)
            /\ Len(ProfileZones) > 0
            /\ (ActiveZones = {} \/ Boxed = {}) )
          => ( /\ last.verdict = Forward
               /\ last.kind = "ShouldSendNotification"
               /\ last.reason \in NothingToEvaluate )

\* The reasons of a geometric match.
GeometricMatch == { ZoneIntersect, ZoneContain }

\* C13: what a coroutine hands downstream is the caller's media, or the debug
\* snapshot, and the snapshot only after a geometric match with the snapshot
\* taken and drawn; with debug_zones off all along it is the caller's media;
\* and a coroutine whose snapshot failed sends once, the caller's media.
C13_ForwardedUnmodified ==
    \A t \in TaskIds :
        /\ tasks[t].sends >= 1
           => /\ tasks[t].sent \in { OriginalMedia, DebugSnapshot }
              /\ tasks[t].sent = DebugSnapshot
                 => /\ tasks[t].raised.reason \in GeometricMatch
                    /\ tasks[t].snapshot = "ok"
              /\ ( ~ tasks[t].disturbed /\ ~ debug_zones(storage) )
                 => tasks[t].sent = OriginalMedia
        /\ ( tasks[t].pc = Returned /\ tasks[t].snapshot = "failed" )
           => /\ tasks[t].sends = 1
              /\ tasks[t].sent = OriginalMedia
        /\ ( tasks[t].pc = Returned /\ tasks[t].snapshot = "ok" )
           => /\ tasks[t].sends = 1
              /\ tasks[t].sent = DebugSnapshot

\* Witness of C13: a match for which the snapshot failed, forwarded with the
\* caller's media.
C13_Witness ==
    \E t \in TaskIds :
        /\ tasks[t].pc = Returned
        /\ tasks[t].raised.reason \in GeometricMatch
        /\ tasks[t].snapshot = "failed"
        /\ tasks[t].sent = OriginalMedia
        /\ ~ tasks[t].failed

\* C14: a coroutine sends downstream at most once; one that is through has
\* sent once if its verdict is Forward, through either handler, and not at
\* all if it is Suppress; and a downstream send that failed was its only one.
C14_AtMostOneSend ==
    \A t \in TaskIds :
        /\ tasks[t].sends <= 1
        /\ tasks[t].pc = Returned
           => IF tasks[t].raised.kind = "else"
              THEN tasks[t].sends = 0
              ELSE tasks[t].sends = 1
        /\ tasks[t].failed
           => /\ tasks[t].sends = 1
              /\ tasks[t].pc = Returned

\* Witness of C14: the downstream send of line 446 failed and the coroutine
\* ended there.
C14_Witness ==
    \E t \in TaskIds :
        /\ tasks[t].pc = Returned
        /\ tasks[t].raised.kind = "ShouldSendNotification"
        /\ tasks[t].failed
        /\ tasks[t].sends = 1

====
